---- MODULE Spec2Model ----
(***************************************************************************)
(* Model of the two setup scripts of stafne/hp_sleep_mac:                  *)
(*   setup_default_config.py  - the stand-alone config bootstrapper        *)
(*   setup_hp_py_sleep.py     - the release installer, which ends by       *)
(*                              running its own copy of the bootstrapper   *)
(* A behaviour is a session of at most MaxRuns runs of either script on    *)
(* one machine.  The filesystem, the hosting API, the user's answers and   *)
(* every I/O failure are the environment: each is drawn with \E from the   *)
(* outcomes the corresponding library call can produce.  User interrupts   *)
(* (Ctrl-C / closed stdin at a prompt) are not modelled.                   *)
(***************************************************************************)
EXTENDS Integers, Sequences, FiniteSets, TLC

\* ---------------------------------------------------------------- bounds
MaxRuns == 2
MaxAssets == 3
MaxSessionAssets == 1
MaxBundles == 2

\* ------------------------------------------------------- file contents
\* A JSON document on disk.  The default_config literal of both scripts is
\* fixed except for created_by and created_timestamp, so a document is
\* identified by who wrote it and when.
Absent == [kind |-> "absent", by |-> "", ts |-> 0]
Custom == [kind |-> "custom", by |-> "user", ts |-> 0]
Truncated == [kind |-> "truncated", by |-> "", ts |-> 0]
DefaultDoc(by, now) == [kind |-> "default", by |-> by, ts |-> now]

\* The faults one bootstrapper call can meet, one per call: the first write
\* error either ends the call or (template, stand-alone script) is the last
\* write attempted.  A call returns the disk it leaves, its return value
\* ("raised": an exception left the function) and err, the write that
\* actually failed ("none", "mkdir", "cfg", "tpl").
Faults == {"none", "mkdir", "open_cfg", "dump_cfg", "open_tpl", "dump_tpl", "read_cfg"}

\* ------------------------------------ setup_default_config.py (stand-alone)
config_file_exists(f) == f.cfg.kind # "absent"

\* faulty variant: the template is written without looking
template_file_exists_never(f) == FALSE

template_file_exists(f) == f.tpl.kind # "absent"

\* open(template_file, 'w') + json.dump inside its own try/except
write_template(f, doc, fault) ==
    IF template_file_exists(f) THEN [fs |-> f, err |-> "none"]
    ELSE IF fault = "open_tpl" THEN [fs |-> f, err |-> "tpl"]
    ELSE IF fault = "dump_tpl" THEN [fs |-> [f EXCEPT !.tpl = Truncated], err |-> "tpl"]
    ELSE [fs |-> [f EXCEPT !.tpl = doc], err |-> "none"]

create_default_config(f, now, fault) ==
    IF ~f.dir /\ fault = "mkdir"                \* os.makedirs is outside any try
    THEN [fs |-> f, ret |-> "raised", err |-> "mkdir"]
    ELSE LET f1 == [f EXCEPT !.dir = TRUE]
             doc == DefaultDoc("setup_default_config.py", now)
         IN  IF config_file_exists(f1)          \* read for display only
             THEN [fs |-> f1, ret |-> "True", err |-> "none"]
             ELSE IF fault = "open_cfg"
                  THEN [fs |-> f1, ret |-> "False", err |-> "cfg"]
             ELSE IF fault = "dump_cfg"
                  THEN [fs |-> [f1 EXCEPT !.cfg = Truncated], ret |-> "False",
                        err |-> "cfg"]
             ELSE LET w == write_template([f1 EXCEPT !.cfg = doc], doc, fault)
                  IN  [fs |-> w.fs, ret |-> "True", err |-> w.err]

\* ---------------------------------------- setup_hp_py_sleep.py (installer)
\* faulty variant: the config is written without looking
config_present_never(f) == FALSE

config_present(f) == f.cfg.kind # "absent"

template_present(f) == f.tpl.kind # "absent"

setup_default_config(f, now, fault) ==
    IF ~f.dir /\ fault = "mkdir"                \* mkdir is inside the try
    THEN [fs |-> f, ret |-> "False", err |-> "mkdir"]
    ELSE LET f1 == [f EXCEPT !.dir = TRUE]
             doc == DefaultDoc("setup_hp_py_sleep.py", now)
         IN  IF config_present(f1)
             THEN [fs |-> f1, ret |-> "True", err |-> "none"]
             ELSE IF fault = "open_cfg"
                  THEN [fs |-> f1, ret |-> "False", err |-> "cfg"]
             ELSE IF fault = "dump_cfg"
                  THEN [fs |-> [f1 EXCEPT !.cfg = Truncated], ret |-> "False",
                        err |-> "cfg"]
             ELSE LET f2 == [f1 EXCEPT !.cfg = doc]
                  IN  IF template_present(f2)
                      THEN [fs |-> f2, ret |-> "True", err |-> "none"]
                      ELSE IF fault = "open_tpl"
                           THEN [fs |-> f2, ret |-> "False", err |-> "tpl"]
                      ELSE IF fault = "dump_tpl"
                           THEN [fs |-> [f2 EXCEPT !.tpl = Truncated],
                                 ret |-> "False", err |-> "tpl"]
                      ELSE [fs |-> [f2 EXCEPT !.tpl = doc], ret |-> "True",
                            err |-> "none"]

\* --------------------------------------------------------- asset names
\* File names are sequences of characters so that "contains" and
\* "ends with" are computed, not assumed.
N_foo == <<"f","o","o",".","z","i","p">>
N_rel == <<"h","p","_","p","y","_","s","l","e","e","p","-","1",".","2",".","0",".","z","i","p">>
N_readme == <<"r","e","a","d","m","e",".","t","x","t">>
N_sha == <<"h","p","_","p","y","_","s","l","e","e","p",".","z","i","p",".","s","h","a">>
N_mac == <<"m","a","c","_","h","p","_","p","y","_","s","l","e","e","p",".","z","i","p">>
asset_name_pattern == <<"h","p","_","p","y","_","s","l","e","e","p">>
ZipExt == <<".","z","i","p">>
AssetNames == {N_foo, N_rel, N_readme, N_sha, N_mac}

\* Python `pat in s`
StrContains(s, pat) ==
    \E i \in 1..(Len(s) - Len(pat) + 1) : SubSeq(s, i, i + Len(pat) - 1) = pat

\* Python s.endswith(suf)
StrEndsWith(s, suf) ==
    /\ Len(s) >= Len(suf)
    /\ SubSeq(s, Len(s) - Len(suf) + 1, Len(s)) = suf

\* faulty variant: any archive is taken, whatever its name
AssetMatches_any_zip(name, pat) == StrEndsWith(name, ZipExt)

AssetMatches(name, pat) == StrContains(name, pat) /\ StrEndsWith(name, ZipExt)

\* the for/break loop: index of the asset kept in target_asset, 0 for None
RECURSIVE FindAssetFrom(_, _, _)
FindAssetFrom(assets, pat, i) ==
    IF i > Len(assets) THEN 0
    ELSE IF AssetMatches(assets[i], pat) THEN i
    ELSE FindAssetFrom(assets, pat, i + 1)

FindAsset(assets, pat) == FindAssetFrom(assets, pat, 1)

AssetLists == UNION {[1..n -> AssetNames] : n \in 0..MaxAssets}

\* the releases met in a whole session: short lists, matching or not
SessionAssetLists == UNION {[1..n -> {N_rel, N_readme}] : n \in 0..MaxSessionAssets}

\* --------------------------------------------------- get_latest_release
\* What the hosting API can answer to the single GET.
Response(kind, status, body, assets) ==
    [kind |-> kind, status |-> status, body |-> body, assets |-> assets]

Responses(lists) ==
    {Response("conn_error", 0, "none", <<>>),
     Response("http", 404, "none", <<>>),
     Response("http", 503, "none", <<>>),
     Response("http", 200, "not_json", <<>>),
     Response("http", 200, "json_no_tag", <<>>)}
    \cup {Response("http", 200, "release", a) : a \in lists}

\* response.raise_for_status(): HTTPError for 4xx and 5xx
RaisesForStatus(status) == status >= 400 /\ status < 600

\* gets: requests.get calls made; ret: "data", "None" or "raised"
get_latest_release(resp) ==
    IF resp.kind = "conn_error"
    THEN [ret |-> "None", assets |-> <<>>, gets |-> 1]
    ELSE IF RaisesForStatus(resp.status)
    THEN [ret |-> "None", assets |-> <<>>, gets |-> 1]
    ELSE IF resp.body = "not_json"       \* response.json() raises a RequestException
    THEN [ret |-> "None", assets |-> <<>>, gets |-> 1]
    ELSE IF resp.body = "json_no_tag"    \* release_data['tag_name']: KeyError, not caught here
    THEN [ret |-> "raised", assets |-> <<>>, gets |-> 1]
    ELSE [ret |-> "data", assets |-> resp.assets, gets |-> 1]

\* ----------------------------------------------- download_release_asset
DownloadOutcomes == {"http_error", "stream_error", "ok"}

\* target: index of the selected asset (0: none); gets: download requests
\* issued; temp: a temporary file was created (and is left on disk)
download_release_asset(assets, pat, outcome) ==
    LET t == FindAsset(assets, pat) IN
    IF t = 0
    THEN [ret |-> "None", target |-> 0, gets |-> 0, temp |-> FALSE]
    ELSE IF outcome = "http_error"
    THEN [ret |-> "None", target |-> t, gets |-> 1, temp |-> FALSE]
    ELSE IF outcome = "stream_error"
    THEN [ret |-> "None", target |-> t, gets |-> 1, temp |-> TRUE]
    ELSE [ret |-> "path", target |-> t, gets |-> 1, temp |-> TRUE]

\* ------------------------------------------------------- user answers
\* input(...).strip().lower(), computed on character sequences
Lower(c) ==
    CASE c = "Y" -> "y" [] c = "E" -> "e" [] c = "S" -> "s" [] c = "N" -> "n"
      [] OTHER -> c

StrLower(s) == [i \in 1..Len(s) |-> Lower(s[i])]

RECURSIVE LStrip(_)
LStrip(s) == IF s # <<>> /\ Head(s) = " " THEN LStrip(Tail(s)) ELSE s

RECURSIVE RStrip(_)
RStrip(s) ==
    IF s # <<>> /\ s[Len(s)] = " " THEN RStrip(SubSeq(s, 1, Len(s) - 1)) ELSE s

Strip(s) == RStrip(LStrip(s))

Typed == {<<"y">>, <<"Y", "e", "s">>, <<" ", "y", " ">>, <<"n">>, <<>>, <<"y", "e">>}

\* response not in ['y', 'yes'] (first prompt)
Confirmed(typed) == StrLower(Strip(typed)) \in {<<"y">>, <<"y", "e", "s">>}

\* launch_response in ['y', 'yes'] (second prompt)
LaunchConfirmed(typed) == StrLower(Strip(typed)) \in {<<"y">>, <<"y", "e", "s">>}

\* ------------------------------------------------------ platform gates
Platforms == {"darwin", "linux"}

\* setup_default_config.py main: sys.platform != "darwin" -> return 1
ConfigGate(p) == p = "darwin"

\* faulty variant: no platform test
InstallerGate_open(p) == TRUE

\* setup_hp_py_sleep.py main: sys.platform != "darwin" -> return False
InstallerGate(p) == p = "darwin"

\* extract_and_install: the second platform test, before the target path
ExtractGate(p) == p = "darwin"

\* ------------------------------------------------------ main's branches
\* if not release_data: return False
AfterQuery(ret) == IF ret = "data" THEN "i_download" ELSE "done"

\* faulty variant: the test of zip_file is missing
AfterDownload_unchecked(ret) == "x_extract"

\* if not zip_file: return False
AfterDownload(ret) == IF ret = "path" THEN "x_extract" ELSE "done"

\* faulty variant: a failed bootstrap ends the flow like any other stage
AfterBootstrap_hard(ret) == IF ret = "True" THEN "i_launch" ELSE "done"

\* config_success only selects a warning; the flow goes on either way
AfterBootstrap(ret) == "i_launch"

\* return True at the end of the success branch; sys.exit(0 if success else 1)
ExitAfterLaunch(config_ret) == 0

\* -------------------------------------------------------- bundles, disk
BundleNames == {"MyApp.app", "HP Py Sleep.app"}
LaunchApp == "HP Py Sleep.app"
BundleLists == UNION {[1..n -> BundleNames] : n \in 0..MaxBundles}
BundleStates == {"absent", "old", "partial", "new"}

Stages == <<"ConfirmWithUser", "QueryRelease", "Download", "ExtractInstall",
            "BootstrapConfig", "Launch">>

VARIABLES
    platform,      \* sys.platform of the machine
    fs,            \* the config directory: [dir, cfg, tpl]
    apps,          \* /Applications/<bundle name> -> BundleStates
    tmp,           \* this run's temporaries: [zip, dir] exist
    clock,         \* datetime.now()
    runs,          \* runs started in this session
    script,        \* "config" or "installer"
    pc,            \* position in the running script
    stages,        \* stages of the installer flow started in this run
    response,      \* the hosting API's answer to this run's release query
    exit,          \* process exit code, -1 while running
    traceback,     \* the run ended with an exception no handler caught
    net,           \* requests issued in this run: [api, dl]
    prompts,       \* input() prompts shown in this run
    snap,          \* disk at the start of this run: [fs, apps]
    calls,         \* every bootstrapper call of the session
    rets,          \* return values of this run's stages; xstep: the step of
                   \* extract_and_install that made it return False
    release_data,  \* asset names of the release in hand
    target,        \* index of the asset selected by the download stage
    app_files,     \* rglob("*.app") of the extracted tree
    prior,         \* state of the target path when extract_and_install began
    launched       \* subprocess.Popen(["open", app_path]) succeeded

vars == <<platform, fs, apps, tmp, clock, runs, script, pc, stages, response,
          exit, traceback, net, prompts, snap, calls, rets, release_data,
          target, app_files, prior, launched>>

NoRets ==
    [confirm |-> "none", query |-> "none", download |-> "none",
     extract |-> "none", config |-> "none", xstep |-> "none"]

NoResponse == Response("none", 0, "none", <<>>)

ConfigDirs ==
    {[dir |-> FALSE, cfg |-> Absent, tpl |-> Absent]}
    \cup {[dir |-> TRUE, cfg |-> c, tpl |-> t] : c \in {Absent, Custom}, t \in {Absent, Custom}}

Init ==
    /\ platform \in Platforms
    /\ fs \in ConfigDirs
    /\ apps \in [BundleNames -> {"absent", "old"}]
    /\ tmp = [zip |-> FALSE, dir |-> FALSE]
    /\ clock = 0
    /\ runs = 0
    /\ script = "none"
    /\ pc = "idle"
    /\ stages = <<>>
    /\ response = NoResponse
    /\ exit = -1
    /\ traceback = FALSE
    /\ net = [api |-> 0, dl |-> 0]
    /\ prompts = 0
    /\ snap = [fs |-> fs, apps |-> apps]
    /\ calls = <<>>
    /\ rets = NoRets
    /\ release_data = <<>>
    /\ target = 0
    /\ app_files = <<>>
    /\ prior = "absent"
    /\ launched = FALSE

\* A run of either script is started from the shell; time passes between runs
\* and each run gets fresh temporary names.
StartRun ==
    /\ pc \in {"idle", "done"}
    /\ runs < MaxRuns
    /\ \E s \in {"config", "installer"} :
        /\ script' = s
        /\ pc' = IF s = "config" THEN "c_main" ELSE "i_gate"
    /\ runs' = runs + 1
    /\ clock' = clock + 1
    /\ tmp' = [zip |-> FALSE, dir |-> FALSE]
    /\ stages' = <<>>
    /\ response' = NoResponse
    /\ exit' = -1
    /\ traceback' = FALSE
    /\ net' = [api |-> 0, dl |-> 0]
    /\ prompts' = 0
    /\ snap' = [fs |-> fs, apps |-> apps]
    /\ rets' = NoRets
    /\ release_data' = <<>>
    /\ target' = 0
    /\ app_files' = <<>>
    /\ prior' = "absent"
    /\ launched' = FALSE
    /\ UNCHANGED <<platform, fs, apps, calls>>

Call(which, before, r) ==
    [which |-> which, before |-> before, after |-> r.fs, ret |-> r.ret,
     err |-> r.err]

\* ------------------------------------------ setup_default_config.py main
ConfigMainRefuse ==
    /\ pc = "c_main"
    /\ ~ConfigGate(platform)
    /\ pc' = "done"
    /\ exit' = 1
    /\ UNCHANGED <<platform, fs, apps, tmp, clock, runs, script, stages, response,
                   traceback, net, prompts, snap, calls, rets, release_data,
                   target, app_files, prior, launched>>

ConfigMainRun ==
    /\ pc = "c_main"
    /\ ConfigGate(platform)
    /\ \E fault \in Faults :
        LET r == create_default_config(fs, clock, fault) IN
        /\ fs' = r.fs
        /\ calls' = Append(calls, Call("create_default_config", fs, r))
        /\ rets' = [rets EXCEPT !.config = r.ret]
        /\ exit' = IF r.ret = "True" THEN 0 ELSE 1
        /\ traceback' = (r.ret = "raised")
    /\ pc' = "done"
    /\ UNCHANGED <<platform, apps, tmp, clock, runs, script, stages, response,
                   net, prompts, snap, release_data, target, app_files, prior,
                   launched>>

\* -------------------------------------------- setup_hp_py_sleep.py main
\* The `import requests` test inside main cannot fail: the module-level
\* import on line 14 has already succeeded when main runs.
InstallerStart ==
    /\ pc = "i_gate"
    /\ IF InstallerGate(platform)
       THEN pc' = "i_confirm" /\ exit' = exit
       ELSE pc' = "done" /\ exit' = 1
    /\ UNCHANGED <<platform, fs, apps, tmp, clock, runs, script, stages, response,
                   traceback, net, prompts, snap, calls, rets, release_data,
                   target, app_files, prior, launched>>

ConfirmWithUser ==
    /\ pc = "i_confirm"
    /\ prompts' = prompts + 1
    /\ stages' = Append(stages, "ConfirmWithUser")
    /\ \E typed \in Typed :
        IF Confirmed(typed)
        THEN pc' = "i_query" /\ exit' = exit /\ rets' = [rets EXCEPT !.confirm = "yes"]
        ELSE pc' = "done" /\ exit' = 1 /\ rets' = [rets EXCEPT !.confirm = "no"]
    /\ UNCHANGED <<platform, fs, apps, tmp, clock, runs, script, traceback, net,
                   snap, calls, response, release_data, target, app_files, prior,
                   launched>>

\* get_latest_release() and `if not release_data: return False`; an exception
\* leaving get_latest_release is caught by the handler around main()
QueryReleaseFrom(lists) ==
    /\ pc = "i_query"
    /\ stages' = Append(stages, "QueryRelease")
    /\ \E resp \in Responses(lists) :
        LET r   == get_latest_release(resp)
            nxt == IF r.ret = "raised" THEN "done" ELSE AfterQuery(r.ret)
        IN  /\ response' = resp
            /\ net' = [net EXCEPT !.api = @ + r.gets]
            /\ rets' = [rets EXCEPT !.query = r.ret]
            /\ release_data' = r.assets
            /\ pc' = nxt
            /\ exit' = IF nxt = "done" THEN 1 ELSE exit
    /\ UNCHANGED <<platform, fs, apps, tmp, clock, runs, script, traceback,
                   prompts, snap, calls, target, app_files, prior, launched>>

QueryRelease == QueryReleaseFrom(SessionAssetLists)

\* download_release_asset(release_data) and `if not zip_file: return False`
Download ==
    /\ pc = "i_download"
    /\ stages' = Append(stages, "Download")
    /\ \E o \in DownloadOutcomes :
        LET r   == download_release_asset(release_data, asset_name_pattern, o)
            nxt == AfterDownload(r.ret)
        IN  /\ net' = [net EXCEPT !.dl = @ + r.gets]
            /\ tmp' = [tmp EXCEPT !.zip = r.temp]
            /\ target' = r.target
            /\ rets' = [rets EXCEPT !.download = r.ret]
            /\ pc' = nxt
            /\ exit' = IF nxt = "done" THEN 1 ELSE exit
    /\ UNCHANGED <<response, platform, fs, apps, clock, runs, script, traceback, prompts,
                   snap, calls, release_data, app_files, prior, launched>>

\* ---------------------------------------------------- extract_and_install
\* extract_and_install returns False (any of its except clauses, or an early
\* return) and main takes its failure branch.
ExtractFail(step) ==
    /\ rets' = [rets EXCEPT !.extract = "False", !.xstep = step]
    /\ pc' = "done"
    /\ exit' = 1

\* shutil.rmtree(target_path) of an existing installation
RemoveOutcomes == {"ok", "fail", "fail_partial"}

\* faulty variant: the existing installation is left in place
RemoveExisting_skip(state, o) == [state |-> state, ok |-> TRUE]

RemoveExisting(state, o) ==
    IF state = "absent" THEN [state |-> "absent", ok |-> TRUE]
    ELSE IF o = "ok" THEN [state |-> "absent", ok |-> TRUE]
    ELSE IF o = "fail" THEN [state |-> state, ok |-> FALSE]
    ELSE [state |-> "partial", ok |-> FALSE]

\* shutil.rmtree(temp_dir); os.unlink(zip_file_path)
CleanOutcomes == {"ok", "rmtree_fail", "unlink_fail"}

\* faulty variant: the downloaded archive is never unlinked
CleanUp_keep_zip(t, o) ==
    IF o = "rmtree_fail" THEN [tmp |-> t, ok |-> FALSE]
    ELSE [tmp |-> [t EXCEPT !.dir = FALSE], ok |-> TRUE]

CleanUp(t, o) ==
    IF o = "rmtree_fail" THEN [tmp |-> t, ok |-> FALSE]
    ELSE IF o = "unlink_fail" THEN [tmp |-> [t EXCEPT !.dir = FALSE], ok |-> FALSE]
    ELSE [tmp |-> [zip |-> FALSE, dir |-> FALSE], ok |-> TRUE]

\* mkdtemp, extractall, rglob("*.app"), the platform test
ExtractUnpack ==
    /\ pc = "x_extract"
    /\ stages' = Append(stages, "ExtractInstall")
    /\ \E o \in {"mkdtemp_fail", "bad_zip", "ok"} :
        \/ /\ o = "mkdtemp_fail"
           /\ ExtractFail("unpack")
           /\ UNCHANGED <<tmp, app_files, prior>>
        \/ /\ o = "bad_zip"
           /\ tmp' = [tmp EXCEPT !.dir = TRUE]
           /\ ExtractFail("unpack")
           /\ UNCHANGED <<app_files, prior>>
        \/ /\ o = "ok"
           /\ tmp' = [tmp EXCEPT !.dir = TRUE]
           /\ \E files \in BundleLists :
               /\ app_files' = files
               /\ IF files = <<>>
                  THEN ExtractFail("no_app") /\ prior' = prior
                  ELSE IF ~ExtractGate(platform)
                  THEN ExtractFail("platform") /\ prior' = prior
                  ELSE /\ prior' = apps[files[1]]
                       /\ pc' = "x_remove"
                       /\ UNCHANGED <<rets, exit>>
    /\ UNCHANGED <<response, platform, fs, apps, clock, runs, script, traceback, net,
                   prompts, snap, calls, release_data, target, launched>>

\* if target_path.exists(): shutil.rmtree(target_path)
ExtractRemove ==
    /\ pc = "x_remove"
    /\ \E o \in RemoveOutcomes :
        LET r == RemoveExisting(apps[app_files[1]], o) IN
        /\ apps' = [apps EXCEPT ![app_files[1]] = r.state]
        /\ IF r.ok
           THEN pc' = "x_copy" /\ UNCHANGED <<rets, exit>>
           ELSE ExtractFail("remove")
    /\ UNCHANGED <<response, platform, fs, tmp, clock, runs, script, stages, traceback,
                   net, prompts, snap, calls, release_data, target, app_files,
                   prior, launched>>

\* shutil.copytree(source_app, target_path) creates the target directory
\* first; it refuses an existing target
ExtractCopyStart ==
    /\ pc = "x_copy"
    /\ \E o \in {"fail", "start"} :
        IF o = "start" /\ apps[app_files[1]] = "absent"
        THEN /\ apps' = [apps EXCEPT ![app_files[1]] = "partial"]
             /\ pc' = "x_copying"
             /\ UNCHANGED <<rets, exit>>
        ELSE /\ apps' = apps
             /\ ExtractFail("copy")
    /\ UNCHANGED <<response, platform, fs, tmp, clock, runs, script, stages, traceback,
                   net, prompts, snap, calls, release_data, target, app_files,
                   prior, launched>>

\* ... and then copies the tree, file by file
ExtractCopyFinish ==
    /\ pc = "x_copying"
    /\ \E o \in {"fail", "ok"} :
        IF o = "ok"
        THEN /\ apps' = [apps EXCEPT ![app_files[1]] = "new"]
             /\ pc' = "x_cleanup"
             /\ UNCHANGED <<rets, exit>>
        ELSE /\ apps' = apps
             /\ ExtractFail("copy")
    /\ UNCHANGED <<response, platform, fs, tmp, clock, runs, script, stages, traceback,
                   net, prompts, snap, calls, release_data, target, app_files,
                   prior, launched>>

ExtractCleanup ==
    /\ pc = "x_cleanup"
    /\ \E o \in CleanOutcomes :
        LET r == CleanUp(tmp, o) IN
        /\ tmp' = r.tmp
        /\ IF r.ok
           THEN /\ rets' = [rets EXCEPT !.extract = "True"]
                /\ pc' = "i_config"
                /\ exit' = exit
           ELSE ExtractFail("cleanup")
    /\ UNCHANGED <<response, platform, fs, apps, clock, runs, script, stages, traceback,
                   net, prompts, snap, calls, release_data, target, app_files,
                   prior, launched>>

\* ------------------------------------------- main, after a good install
BootstrapConfig ==
    /\ pc = "i_config"
    /\ stages' = Append(stages, "BootstrapConfig")
    /\ \E fault \in Faults :
        LET r   == setup_default_config(fs, clock, fault)
            nxt == AfterBootstrap(r.ret)
        IN  /\ fs' = r.fs
            /\ calls' = Append(calls, Call("setup_default_config", fs, r))
            /\ rets' = [rets EXCEPT !.config = r.ret]
            /\ pc' = nxt
            /\ exit' = IF nxt = "done" THEN 1 ELSE exit
    /\ UNCHANGED <<response, platform, apps, tmp, clock, runs, script, traceback, net,
                   prompts, snap, release_data, target, app_files, prior,
                   launched>>

\* the launch prompt, the optional launch, return True and sys.exit
LaunchPrompt ==
    /\ pc = "i_launch"
    /\ prompts' = prompts + 1
    /\ \E typed \in Typed, popen \in {"ok", "raise"} :
        IF LaunchConfirmed(typed)
        THEN /\ stages' = Append(stages, "Launch")
             /\ launched' = (apps[LaunchApp] # "absent" /\ popen = "ok")
        ELSE /\ stages' = stages
             /\ launched' = FALSE
    /\ pc' = "done"
    /\ exit' = ExitAfterLaunch(rets.config)
    /\ UNCHANGED <<platform, fs, apps, tmp, clock, runs, script, response,
                   traceback, net, snap, calls, rets, release_data, target,
                   app_files, prior>>

Next ==
    \/ StartRun
    \/ ConfigMainRefuse
    \/ ConfigMainRun
    \/ InstallerStart
    \/ ConfirmWithUser
    \/ QueryRelease
    \/ Download
    \/ ExtractUnpack
    \/ ExtractRemove
    \/ ExtractCopyStart
    \/ ExtractCopyFinish
    \/ ExtractCleanup
    \/ BootstrapConfig
    \/ LaunchPrompt

Spec == Init /\ [][Next]_vars

\* The download stage alone, on every asset list up to MaxAssets names:
\* sessions that go as far as the download and stop there.
QueryReleaseFull == QueryReleaseFrom(AssetLists)

NextSelect ==
    \/ StartRun
    \/ InstallerStart
    \/ ConfirmWithUser
    \/ QueryReleaseFull
    \/ Download

SpecSelect == Init /\ [][NextSelect]_vars

\* ======================================================== properties
IsPrefix(s, t) == Len(s) <= Len(t) /\ SubSeq(t, 1, Len(s)) = s

Exists(doc) == doc.kind # "absent"

Fresh(f) == ~Exists(f.cfg) /\ ~Exists(f.tpl)

\* C1: a bootstrapper run never modifies or deletes a pre-existing config or
\* template file: with the config present the call writes nothing and returns
\* success, and a file changes only if it was absent when the call began.
C1_CreateIfAbsentOnly ==
    /\ \A i \in 1..Len(calls) :
        LET c == calls[i] IN
        /\ Exists(c.before.cfg) => c.after = c.before /\ c.ret = "True"
        /\ Exists(c.before.tpl) => c.after.tpl = c.before.tpl
        /\ c.after.cfg # c.before.cfg => ~Exists(c.before.cfg)
        /\ c.after.tpl # c.before.tpl => ~Exists(c.before.tpl)
        /\ i > 1 => c.before = calls[i - 1].after
    /\ calls # <<>> => fs = calls[Len(calls)].after
    /\ Exists(snap.fs.cfg) => fs = snap.fs
    /\ Exists(snap.fs.tpl) => fs.tpl = snap.fs.tpl

\* a run created the config next to a user's template, and a second run then
\* found that config in place
C1_Witness ==
    /\ Len(calls) = 2
    /\ calls[1].before.tpl = Custom
    /\ ~Exists(calls[1].before.cfg)
    /\ calls[1].after.cfg.kind = "default"
    /\ calls[2].ret = "True"

\* C2: every filesystem write error in the bootstrapper (directory, config
\* file, template file) is caught and returned as success = false: none
\* leaves the function as an exception, none comes with success = true.
C2_WriteErrorsReturnFalse ==
    /\ \A i \in 1..Len(calls) : calls[i].err # "none" => calls[i].ret = "False"
    /\ ~traceback

\* C3: the installer's stages start only in the order ConfirmWithUser,
\* QueryRelease, Download, ExtractInstall, BootstrapConfig, Launch, each at
\* most once; after a refusal or a failed QueryRelease, Download or
\* ExtractInstall no later stage starts and the run has failed.
C3_StageOrder ==
    /\ IsPrefix(stages, Stages)
    /\ rets.confirm = "no" =>
         stages = SubSeq(Stages, 1, 1) /\ pc = "done" /\ exit = 1
    /\ rets.query \in {"None", "raised"} =>
         stages = SubSeq(Stages, 1, 2) /\ pc = "done" /\ exit = 1
    /\ rets.download = "None" =>
         stages = SubSeq(Stages, 1, 3) /\ pc = "done" /\ exit = 1
    /\ rets.extract = "False" =>
         stages = SubSeq(Stages, 1, 4) /\ pc = "done" /\ exit = 1

\* the download failed and the run ended there
C3_Witness ==
    /\ pc = "done"
    /\ rets.download = "None"
    /\ target > 0
    /\ stages = <<"ConfirmWithUser", "QueryRelease", "Download">>

EarlierStageFailed ==
    \/ ~InstallerGate(platform)
    \/ rets.confirm = "no"
    \/ rets.query \in {"None", "raised"}
    \/ rets.download = "None"
    \/ rets.extract = "False"

\* C4: after a successful ExtractInstall a failed BootstrapConfig does not
\* fail the flow: the launch prompt is still shown and the exit code is 0;
\* a failure or refusal at any earlier stage gives exit code 1.
C4_SoftConfigFailure ==
    /\ (rets.extract = "True" /\ rets.config = "False") =>
         /\ pc \in {"i_launch", "done"}
         /\ pc = "done" => exit = 0 /\ prompts = 2
    /\ (script = "installer" /\ pc = "done" /\ EarlierStageFailed) => exit = 1

\* the installer finished after a good install and a failed bootstrap
C4_Witness ==
    /\ pc = "done"
    /\ rets.extract = "True"
    /\ rets.config = "False"
    /\ exit = 0

\* C5: off the target platform either script fails before any request is
\* sent, any file or directory is touched, any prompt is shown or any stage
\* is reached.
C5_PlatformGate ==
    platform # "darwin" =>
        /\ net = [api |-> 0, dl |-> 0]
        /\ fs = snap.fs
        /\ apps = snap.apps
        /\ tmp = [zip |-> FALSE, dir |-> FALSE]
        /\ prompts = 0
        /\ stages = <<>>
        /\ calls = <<>>
        /\ rets = NoRets
        /\ pc = "done" => exit = 1

\* the installer was run, and refused, on another platform
C5_Witness ==
    /\ platform = "linux"
    /\ runs = 2
    /\ script = "installer"
    /\ pc = "done"
    /\ exit = 1

BadResponse(r) ==
    \/ r.kind = "http" /\ ~(r.status >= 200 /\ r.status < 300)
    \/ r.kind = "http" /\ r.body \in {"not_json", "json_no_tag"}

\* C6: get_latest_release sends exactly one GET and, on a non-2xx answer or a
\* malformed body, returns None instead of raising, so that main ends the
\* flow by its failure return before the download starts.
C6_QueryReturnsNone ==
    /\ rets.query # "none" => net.api = 1
    /\ BadResponse(response) =>
         rets.query = "None" /\ pc = "done" /\ exit = 1 /\ rets.download = "none"

\* name contains pat somewhere and its last characters are ".zip"
ZipNamed(name, pat) ==
    /\ \E a \in 0..Len(name), b \in 0..Len(name) : SubSeq(name, a + 1, b) = pat
    /\ \E k \in 0..Len(name) : SubSeq(name, 1, k) \o ZipExt = name

\* C7: the download stage selects the first asset, in list order, whose name
\* contains the pattern and ends with ".zip" (the second of foo.zip,
\* hp_py_sleep-1.2.0.zip, readme.txt); with no such asset it returns the
\* not-found error, sends no download request and creates no temporary file.
C7_FirstMatchingAsset ==
    rets.download # "none" =>
        LET M == {i \in 1..Len(release_data) :
                     ZipNamed(release_data[i], asset_name_pattern)}
        IN  /\ M = {} =>
                 /\ target = 0
                 /\ rets.download = "None"
                 /\ net.dl = 0
                 /\ ~tmp.zip
            /\ M # {} =>
                 /\ target \in M
                 /\ \A j \in M : target <= j
                 /\ net.dl = 1
            /\ release_data = <<N_foo, N_rel, N_readme>> => target = 2

\* the asset list of the example was downloaded from
C7_Witness ==
    /\ release_data = <<N_foo, N_rel, N_readme>>
    /\ rets.download = "path"
    /\ target = 2

\* C8: whenever extract_and_install returns success the bundle found in the
\* archive is installed at the target path and neither the extraction
\* directory nor the downloaded archive exists any more, with or without a
\* prior installation.
C8_InstalledAndCleaned ==
    rets.extract = "True" =>
        /\ app_files # <<>>
        /\ apps[app_files[1]] = "new"
        /\ ~tmp.dir
        /\ ~tmp.zip

\* a good install over an existing one
C8_Witness ==
    /\ rets.extract = "True"
    /\ prior = "old"
    /\ apps[app_files[1]] = "new"

\* C9: two bootstrapper runs in sequence on a fresh config directory: the
\* second leaves the config and the template exactly as the first left them
\* (created_timestamp included) and both return success.  A fresh directory
\* is a writable one: the first run is taken without write error.
C9_SecondRunChangesNothing ==
    \A i \in 1..(Len(calls) - 1) :
        Fresh(calls[i].before) =>
            /\ calls[i].err = "none" => calls[i].ret = "True"
            /\ calls[i].ret = "True" =>
                 /\ calls[i + 1].ret = "True"
                 /\ calls[i + 1].after.cfg = calls[i].after.cfg
                 /\ calls[i + 1].after.tpl = calls[i].after.tpl
                 /\ Len(calls) = i + 1 =>
                      fs.cfg = calls[i].after.cfg /\ fs.tpl = calls[i].after.tpl

\* both files were created by the first run, one clock tick before the second
C9_Witness ==
    /\ Len(calls) = 2
    /\ Fresh(calls[1].before)
    /\ calls[1].err = "none"
    /\ calls[1].after.cfg.kind = "default"
    /\ calls[1].after.tpl.kind = "default"
    /\ calls[2].which = "setup_default_config"
    /\ calls[2].ret = "True"
    /\ clock > calls[1].after.cfg.ts

\* C10: an existing bundle is deleted before the copy of the new one begins
\* and nothing is rolled back: while the copy runs, and after it has failed
\* and the function has returned failure, the old bundle is gone and no
\* complete bundle is at the target path.
C10_DeleteThenCopy ==
    /\ pc = "x_copy" => apps[app_files[1]] = "absent"
    /\ pc = "x_copying" => apps[app_files[1]] = "partial"
    /\ rets.xstep = "copy" =>
         /\ apps[app_files[1]] \in {"absent", "partial"}
         /\ rets.extract = "False"
         /\ pc = "done"
         /\ exit = 1

\* the copy over an existing installation failed half way
C10_Witness ==
    /\ prior = "old"
    /\ rets.xstep = "copy"
    /\ apps[app_files[1]] = "partial"

====
